---- MODULE Spec2Model ----
(***************************************************************************)
(* Model of scripts/audit_vercel_fixtures.py: the audit of upstream        *)
(* fixture files against the local fixture corpus.                         *)
(*                                                                         *)
(* A string is a sequence of one-character strings, a path is a sequence   *)
(* of names (strings) relative to the root it is walked from.              *)
(***************************************************************************)
EXTENDS Integers, Sequences, FiniteSets, TLC

VARIABLES
    aiTree,         \* regular files below <ai-root>/packages (set of paths)
    siTree,         \* entries below <siumai-root>/siumai/tests/fixtures
    content,        \* bytes of every file, as a content id
    unreadable,     \* files whose open()/read() raises
    rev,            \* which of two directory-walk orders the OS yields
    args,           \* parsed command line: ignore_packages, limit
    pc,             \* position in main
    ignore, upstream, file_index, dir_names, idx,
    covered_by_file, covered_by_file_multi, covered_by_case_dir,
    missing, ambiguous, drift,
    out,            \* lines printed to standard output
    exit_code,      \* process exit status once main has ended
    fx,             \* an UpstreamFixture whose derived ids are computed
    cid, norm1, norm2, ppc

fsVars   == <<aiTree, siTree, content, unreadable, rev, args>>
mainVars == <<pc, ignore, upstream, file_index, dir_names, idx,
              covered_by_file, covered_by_file_multi, covered_by_case_dir,
              missing, ambiguous, drift, out, exit_code>>
idVars   == <<fx, cid, norm1, norm2, ppc>>
vars     == <<fsVars, mainVars, idVars>>

(***************************************************************************)
(* Strings                                                                 *)
(***************************************************************************)
\* the characters in use, in code-point order
Chars == <<" ", ",", "-", ".", "/", "1", "2", "3", "4", "5", "6", "7", "8",
           "A", "D", "E", "M", "R", "_",
           "a", "b", "c", "d", "e", "f", "g", "h", "i", "j", "k", "l", "m",
           "n", "o", "p", "q", "r", "s", "t", "u", "v", "w", "x", "y", "z">>

OrdOf == [c \in {Chars[i] : i \in 1..Len(Chars)} |->
             CHOOSE i \in 1..Len(Chars) : Chars[i] = c]

\* ord(c), up to the gaps between the characters in use
Ord(c) == OrdOf[c]

RECURSIVE StrLess(_, _)
\* Python's str < str: lexicographic by code point
StrLess(a, b) ==
    IF b = <<>> THEN FALSE
    ELSE IF a = <<>> THEN TRUE
    ELSE IF Head(a) = Head(b) THEN StrLess(Tail(a), Tail(b))
    ELSE Ord(Head(a)) < Ord(Head(b))

\* str.startswith
StartsWith(s, p) == Len(s) >= Len(p) /\ SubSeq(s, 1, Len(p)) = p

\* str.endswith
EndsWith(s, p) == Len(s) >= Len(p) /\ SubSeq(s, Len(s) - Len(p) + 1, Len(s)) = p

RECURSIVE Split(_, _)
\* str.split(sep) for a one-character separator: always at least one part
Split(s, sep) ==
    IF \A i \in 1..Len(s) : s[i] # sep THEN <<s>>
    ELSE LET k == CHOOSE i \in 1..Len(s) :
                      s[i] = sep /\ \A j \in 1..(i - 1) : s[j] # sep
         IN  <<SubSeq(s, 1, k - 1)>> \o Split(SubSeq(s, k + 1, Len(s)), sep)

RECURSIVE Join(_, _)
\* sep.join(parts)
Join(parts, sep) ==
    IF parts = <<>> THEN <<>>
    ELSE IF Len(parts) = 1 THEN parts[1]
    ELSE parts[1] \o sep \o Join(Tail(parts), sep)

RECURSIVE LStrip(_)
LStrip(s) == IF s # <<>> /\ Head(s) = " " THEN LStrip(Tail(s)) ELSE s

RECURSIVE RStrip(_)
RStrip(s) == IF s # <<>> /\ s[Len(s)] = " " THEN RStrip(SubSeq(s, 1, Len(s) - 1)) ELSE s

\* str.strip
Strip(s) == RStrip(LStrip(s))

\* seq[:n] of Python: a negative n counts from the end
PySlice(seq, n) ==
    IF n >= 0 THEN SubSeq(seq, 1, IF n < Len(seq) THEN n ELSE Len(seq))
    ELSE SubSeq(seq, 1, Len(seq) + n)

Range(seq) == {seq[i] : i \in 1..Len(seq)}

\* the names the program and the modelled trees use
openai       == <<"o", "p", "e", "n", "a", "i">>
xai          == <<"x", "a", "i">>
anthropic    == <<"a", "n", "t", "h", "r", "o", "p", "i", "c">>
langchain    == <<"l", "a", "n", "g", "c", "h", "a", "i", "n">>
unknown      == <<"u", "n", "k", "n", "o", "w", "n">>
fixturesName == <<"_", "_", "f", "i", "x", "t", "u", "r", "e", "s", "_", "_">>
openaiPrefix == <<"o", "p", "e", "n", "a", "i", "-">>
xaiPrefix    == <<"x", "a", "i", "-">>
chunks       == <<"c", "h", "u", "n", "k", "s">>
txt          == <<"t", "x", "t">>
json         == <<"j", "s", "o", "n">>
dot          == <<".">>
dash         == <<"-">>
slash        == <<"/">>

(***************************************************************************)
(* UpstreamFixture and the case-id normaliser                              *)
(***************************************************************************)
UpstreamFixture(package, path) == [package |-> package, path |-> path]

\* Path.name: the final component
Name(path) == path[Len(path)]

\* str(path), relative to the walked root
PathStr(path) == Join(path, slash)

\* a bug variant: the chunks.txt suffix is stripped from two segments too
case_id_two_segments(name) ==
    LET parts == Split(name, ".")
        n     == Len(parts)
    IN  IF n >= 2 /\ SubSeq(parts, n - 1, n) = <<chunks, txt>>
        THEN Join(SubSeq(parts, 1, n - 2), dot)
        ELSE IF n >= 2 THEN Join(SubSeq(parts, 1, n - 1), dot)
        ELSE name

\* UpstreamFixture.case_id
case_id(name) ==
    LET parts == Split(name, ".")
        n     == Len(parts)
    IN  IF n >= 3 /\ SubSeq(parts, n - 1, n) = <<chunks, txt>>
        THEN Join(SubSeq(parts, 1, n - 2), dot)
        ELSE IF n >= 2 THEN Join(SubSeq(parts, 1, n - 1), dot)
        ELSE name

\* a bug variant: the prefixes are stripped whatever the package
normalize_case_id_any_package(package, c) ==
    IF StartsWith(c, openaiPrefix) THEN SubSeq(c, Len(openaiPrefix) + 1, Len(c))
    ELSE IF StartsWith(c, xaiPrefix) THEN SubSeq(c, Len(xaiPrefix) + 1, Len(c))
    ELSE c

normalize_case_id(package, c) ==
    IF package = openai /\ StartsWith(c, openaiPrefix)
    THEN SubSeq(c, Len(openaiPrefix) + 1, Len(c))
    ELSE IF package = xai /\ StartsWith(c, xaiPrefix)
    THEN SubSeq(c, Len(xaiPrefix) + 1, Len(c))
    ELSE c

case_dir_exists(dirs, normalized_case_id) ==
    IF normalized_case_id \in dirs THEN TRUE
    ELSE LET prefix == normalized_case_id \o dash
         IN  \E name \in dirs : StartsWith(name, prefix)

\* a bug variant: the cap is ignored
summarize_paths_all(paths, limit) == paths

summarize_paths(paths, limit) == PySlice(paths, limit)

(***************************************************************************)
(* The two trees                                                           *)
(***************************************************************************)
\* a file of either tree
UpFile(path) == [root |-> "ai", path |-> path]
SiFile(path) == [root |-> "si", path |-> path]

IsPrefix(d, p) == Len(d) <= Len(p) /\ SubSeq(p, 1, Len(d)) = d

AllPrefixes(S) == UNION {{SubSeq(p, 1, k) : k \in 1..Len(p)} : p \in S}

\* Path.is_dir / Path.is_file in the upstream tree
UpIsDir(tree, p) == \E q \in tree : Len(p) < Len(q) /\ IsPrefix(p, q)
UpIsFile(tree, p) == p \in tree

\* the local tree is a set of entries [path, kind]; ancestors are directories
SiPaths(tree) == AllPrefixes({e.path : e \in tree})
SiIsFile(tree, p) == [path |-> p, kind |-> "file"] \in tree
SiIsDir(tree, p) ==
    \/ [path |-> p, kind |-> "dir"] \in tree
    \/ \E e \in tree : Len(p) < Len(e.path) /\ IsPrefix(p, e.path)

RECURSIVE SortedPaths(_)
\* the paths of a set in ascending order of str(path)
SortedPaths(S) ==
    IF S = {} THEN <<>>
    ELSE LET m == CHOOSE p \in S :
                      \A q \in S : q = p \/ StrLess(PathStr(p), PathStr(q))
         IN  <<m>> \o SortedPaths(S \ {m})

Reverse(seq) == [i \in 1..Len(seq) |-> seq[Len(seq) + 1 - i]]

\* Path.rglob yields entries in the order the OS lists directories, which is
\* not specified: one of two orders, fixed for the run
Walk(S, r) == IF r THEN Reverse(SortedPaths(S)) ELSE SortedPaths(S)

RECURSIVE Insert(_, _)
\* insertion after every element whose key is not greater (a stable sort)
Insert(sorted_seq, f) ==
    IF sorted_seq = <<>> THEN <<f>>
    ELSE IF StrLess(PathStr(f.path), PathStr(Head(sorted_seq).path))
    THEN <<f>> \o sorted_seq
    ELSE <<Head(sorted_seq)>> \o Insert(Tail(sorted_seq), f)

RECURSIVE SortedByPath(_)
\* sorted(out, key=lambda f: str(f.path))
SortedByPath(seq) ==
    IF seq = <<>> THEN <<>>
    ELSE Insert(SortedByPath(SubSeq(seq, 1, Len(seq) - 1)), seq[Len(seq)])

RECURSIVE Concat(_)
Concat(seqs) == IF seqs = <<>> THEN <<>> ELSE Head(seqs) \o Concat(Tail(seqs))

\* the files the inner rglob("*") of one fixtures directory appends
FixturesUnder(tree, fixtures_dir, r) ==
    LET package == IF Len(fixtures_dir) >= 1 THEN fixtures_dir[1] ELSE unknown
        below   == {p \in AllPrefixes(tree) :
                        Len(p) > Len(fixtures_dir) /\ IsPrefix(fixtures_dir, p)}
        walked  == Walk(below, r)
        IsFile(p) == UpIsFile(tree, p)
    IN  [i \in 1..Len(SelectSeq(walked, IsFile)) |->
            UpstreamFixture(package, SelectSeq(walked, IsFile)[i])]

iter_upstream_fixtures(tree, r) ==
    LET named   == {p \in AllPrefixes(tree) : Name(p) = fixturesName}
        walked  == Walk(named, r)
        IsDir(p) == UpIsDir(tree, p)
        dirs    == SelectSeq(walked, IsDir)
        out_    == Concat([i \in 1..Len(dirs) |-> FixturesUnder(tree, dirs[i], r)])
    IN  SortedByPath(out_)

\* dict.get(name, [])
Get(index, name) == IF name \in DOMAIN index THEN index[name] ELSE <<>>

RECURSIVE IndexOf(_, _)
\* file_index after the walk has visited the entries of seq in order
IndexOf(tree, seq) ==
    IF seq = <<>> THEN [n \in {} |-> <<>>]
    ELSE LET before == IndexOf(tree, SubSeq(seq, 1, Len(seq) - 1))
             p      == seq[Len(seq)]
         IN  IF ~SiIsDir(tree, p) /\ SiIsFile(tree, p)
             THEN [n \in DOMAIN before \cup {Name(p)} |->
                      IF n = Name(p) THEN Get(before, n) \o <<p>> ELSE before[n]]
             ELSE before

\* build_siumai_fixture_index: (file_index, dir_names)
build_siumai_fixture_index(tree, r) ==
    LET walked == Walk(SiPaths(tree), r)
    IN  [file_index |-> IndexOf(tree, walked),
         dir_names  |-> {Name(p) : p \in {q \in SiPaths(tree) : SiIsDir(tree, q)}}]

\* main, line 120: the ignore set of --ignore-packages
ParseIgnore(ignore_packages) ==
    {Strip(p) : p \in {q \in Range(Split(ignore_packages, ",")) : Strip(q) # <<>>}}

(***************************************************************************)
(* Hashing                                                                 *)
(***************************************************************************)
\* SHA-256 of a content: distinct contents have distinct digests (a collision
\* is treated as impossible); a digest is not the content it was made from
Digest(c) == <<"sha256", c>>

\* sha256(path) when the file can be read
sha256(cont, file) == Digest(cont[file])

(***************************************************************************)
(* main: the classification loop, lines 131-151                            *)
(***************************************************************************)
EmptyBuckets ==
    [covered_by_file |-> <<>>, covered_by_file_multi |-> <<>>,
     covered_by_case_dir |-> <<>>, missing |-> <<>>, ambiguous |-> <<>>,
     drift |-> <<>>]

\* a bug variant: every candidate has to agree (match-all)
Matching_all_or_nothing(cont, candidates, up_hash) ==
    LET Same(c) == sha256(cont, SiFile(c)) = up_hash
    IN  IF \A i \in 1..Len(candidates) : Same(candidates[i])
        THEN candidates ELSE <<>>

\* line 141: the candidates whose hash equals the upstream hash
Matching(cont, candidates, up_hash) ==
    LET Same(c) == sha256(cont, SiFile(c)) = up_hash
    IN  SelectSeq(candidates, Same)

\* lines 147-151: no local file has the name
ByCaseDir(b, f, dirs) ==
    LET normalized_case_id == normalize_case_id(f.package, case_id(Name(f.path)))
    IN  IF case_dir_exists(dirs, normalized_case_id)
        THEN [b EXCEPT !.covered_by_case_dir = Append(@, f)]
        ELSE [b EXCEPT !.missing = Append(@, f)]

\* a bug variant: the first branch lacks its continue and falls through
LoopBody_no_continue(b, f, index, dirs, cont) ==
    LET candidates == Get(index, Name(f.path))
    IN  IF Len(candidates) = 1
        THEN LET si == candidates[1]
                 b1 == [b EXCEPT !.covered_by_file = Append(@, f)]
                 b2 == IF sha256(cont, UpFile(f.path)) # sha256(cont, SiFile(si))
                       THEN [b1 EXCEPT !.drift = Append(@, <<f, si>>)]
                       ELSE b1
             IN  ByCaseDir(b2, f, dirs)
        ELSE IF Len(candidates) > 1
        THEN LET up_hash  == sha256(cont, UpFile(f.path))
                 matching == Matching(cont, candidates, up_hash)
             IN  IF matching # <<>>
                 THEN [b EXCEPT !.covered_by_file_multi =
                                    Append(@, <<f, matching, candidates>>)]
                 ELSE [b EXCEPT !.ambiguous = Append(@, <<f, candidates>>)]
        ELSE ByCaseDir(b, f, dirs)

\* a bug variant: a directory match is tried before the file names
LoopBody_dir_first(b, f, index, dirs, cont) ==
    LET candidates == Get(index, Name(f.path))
        normalized_case_id == normalize_case_id(f.package, case_id(Name(f.path)))
    IN  IF case_dir_exists(dirs, normalized_case_id)
        THEN [b EXCEPT !.covered_by_case_dir = Append(@, f)]
        ELSE IF Len(candidates) = 1
        THEN LET si == candidates[1]
                 b1 == [b EXCEPT !.covered_by_file = Append(@, f)]
             IN  IF sha256(cont, UpFile(f.path)) # sha256(cont, SiFile(si))
                 THEN [b1 EXCEPT !.drift = Append(@, <<f, si>>)]
                 ELSE b1
        ELSE IF Len(candidates) > 1
        THEN LET up_hash  == sha256(cont, UpFile(f.path))
                 matching == Matching(cont, candidates, up_hash)
             IN  IF matching # <<>>
                 THEN [b EXCEPT !.covered_by_file_multi =
                                    Append(@, <<f, matching, candidates>>)]
                 ELSE [b EXCEPT !.ambiguous = Append(@, <<f, candidates>>)]
        ELSE [b EXCEPT !.missing = Append(@, f)]

\* one iteration of the loop over upstream, every hash succeeding
LoopBody(b, f, index, dirs, cont) ==
    LET candidates == Get(index, Name(f.path))
    IN  IF Len(candidates) = 1
        THEN LET si == candidates[1]
                 b1 == [b EXCEPT !.covered_by_file = Append(@, f)]
             IN  IF sha256(cont, UpFile(f.path)) # sha256(cont, SiFile(si))
                 THEN [b1 EXCEPT !.drift = Append(@, <<f, si>>)]
                 ELSE b1
        ELSE IF Len(candidates) > 1
        THEN LET up_hash  == sha256(cont, UpFile(f.path))
                 matching == Matching(cont, candidates, up_hash)
             IN  IF matching # <<>>
                 THEN [b EXCEPT !.covered_by_file_multi =
                                    Append(@, <<f, matching, candidates>>)]
                 ELSE [b EXCEPT !.ambiguous = Append(@, <<f, candidates>>)]
        ELSE ByCaseDir(b, f, dirs)

\* a bug variant: local candidates are compared without being read here
Hashed_upstream_only(f, index) ==
    IF Len(Get(index, Name(f.path))) >= 1 THEN {UpFile(f.path)} ELSE {}

\* the files one iteration passes to sha256: lines 136, 140, 141
Hashed(f, index) ==
    LET candidates == Get(index, Name(f.path))
    IN  IF Len(candidates) = 1
        THEN {UpFile(f.path), SiFile(candidates[1])}
        ELSE IF Len(candidates) > 1
        THEN {UpFile(f.path)} \cup {SiFile(c) : c \in Range(candidates)}
        ELSE {}

\* sha256 raises in this iteration: path.open / f.read fails, nothing catches it
Raises(f, index, unread) == Hashed(f, index) \cap unread # {}

(***************************************************************************)
(* main: the report, lines 153-187                                         *)
(***************************************************************************)
RECURSIVE SortedStrs(_)
\* sorted(ignore)
SortedStrs(S) ==
    IF S = {} THEN <<>>
    ELSE LET m == CHOOSE a \in S : \A c \in S : c = a \/ StrLess(a, c)
         IN  <<m>> \o SortedStrs(S \ {m})

\* one printed line: a count, a section header, or a path under a section
CountLine(sec, n, names) ==
    [tag |-> "count", sec |-> sec, n |-> n, path |-> <<>>, names |-> names]
HeaderLine(sec) ==
    [tag |-> "header", sec |-> sec, n |-> 0, path |-> <<>>, names |-> <<>>]
PathLine(sec, tag, path) ==
    [tag |-> tag, sec |-> sec, n |-> 0, path |-> path, names |-> <<>>]

\* the local paths of a list, one line each
PathLines(sec, tag, paths) ==
    [i \in 1..Len(paths) |-> PathLine(sec, tag, paths[i])]

\* line 185: [c for c in all_cands if c not in matching]
Other(all_cands, matching) ==
    LET NotMatching(c) == c \notin Range(matching)
    IN  SelectSeq(all_cands, NotMatching)

\* the number of local paths shown per list, lines 176, 183, 186
SummaryCap == 5

\* lines 153-159
CountLines(b, ups, ign) ==
    <<CountLine("total", Len(ups), SortedStrs(ign)),
      CountLine("covered_by_file", Len(b.covered_by_file), <<>>),
      CountLine("covered_by_file_multi", Len(b.covered_by_file_multi), <<>>),
      CountLine("covered_by_case_dir", Len(b.covered_by_case_dir), <<>>),
      CountLine("ambiguous", Len(b.ambiguous), <<>>),
      CountLine("missing", Len(b.missing), <<>>),
      CountLine("drift", Len(b.drift), <<>>)>>

\* lines 161-165
DriftSection(b, limit) ==
    IF b.drift = <<>> THEN <<>>
    ELSE LET shown == PySlice(b.drift, limit)
         IN  <<HeaderLine("drift")>> \o
             Concat([i \in 1..Len(shown) |->
                        <<PathLine("drift", "UP", shown[i][1].path),
                          PathLine("drift", "SI", shown[i][2])>>])

\* lines 167-170
MissingSection(b, limit) ==
    IF b.missing = <<>> THEN <<>>
    ELSE LET shown == PySlice(b.missing, limit)
         IN  <<HeaderLine("missing")>> \o
             [i \in 1..Len(shown) |-> PathLine("missing", "UP", shown[i].path)]

\* lines 172-177
AmbiguousSection(b, limit) ==
    IF b.ambiguous = <<>> THEN <<>>
    ELSE LET shown == PySlice(b.ambiguous, limit)
         IN  <<HeaderLine("ambiguous")>> \o
             Concat([i \in 1..Len(shown) |->
                        <<PathLine("ambiguous", "UP", shown[i][1].path)>> \o
                        PathLines("ambiguous", "SI",
                                  summarize_paths(shown[i][2], SummaryCap))])

\* lines 179-187
MultiSection(b, limit) ==
    IF b.covered_by_file_multi = <<>> THEN <<>>
    ELSE LET shown == PySlice(b.covered_by_file_multi, limit)
         IN  <<HeaderLine("multi")>> \o
             Concat([i \in 1..Len(shown) |->
                        <<PathLine("multi", "UP", shown[i][1].path)>> \o
                        PathLines("multi", "MATCH",
                                  summarize_paths(shown[i][2], SummaryCap)) \o
                        PathLines("multi", "OTHER",
                                  summarize_paths(Other(shown[i][3], shown[i][2]),
                                                  SummaryCap))])

ReportLines(b, ups, ign, limit) ==
    CountLines(b, ups, ign) \o DriftSection(b, limit) \o MissingSection(b, limit)
        \o AmbiguousSection(b, limit) \o MultiSection(b, limit)

(***************************************************************************)
(* Bounds and the inputs the model draws                                   *)
(***************************************************************************)
MaxLimit == 2       \* --limit ranges over -1 .. MaxLimit
MaxCands == 6       \* same-named local files in the many-candidates trees
MaxSegs  == 3       \* dot-separated segments of a generated file name

\* --limit default, line 117
DefaultLimit == 50

Contents == {"x", "y"}

a_         == <<"a">>
b_         == <<"b">>
c_         == <<"c">>
sub        == <<"s", "u", "b">>
src_       == <<"s", "r", "c">>
a_json_dir == <<"a", "-", "j", "s", "o", "n">>
openai_a_json    == openaiPrefix \o a_ \o dot \o json
xai_a_chunks_txt == xaiPrefix \o a_ \o dot \o chunks \o dot \o txt
b_json           == b_ \o dot \o json

\* upstream files, relative to <ai-root>/packages
upA == <<openai, fixturesName, openai_a_json>>
upB == <<xai, src_, fixturesName, xai_a_chunks_txt>>
upC == <<anthropic, fixturesName, sub, fixturesName, b_json>>
upD == <<langchain, fixturesName, b_json>>
upE == <<openai, src_, b_json>>
upW == <<anthropic, fixturesName, b_json>>
UpUniverse == {upA, upB, upC, upD, upE}

\* local entries, relative to <siumai-root>/siumai/tests/fixtures
FileEntry(path) == [path |-> path, kind |-> "file"]
DirEntry(path)  == [path |-> path, kind |-> "dir"]
SiUniverse ==
    {FileEntry(<<a_json_dir, openai_a_json>>), FileEntry(<<b_, b_json>>),
     FileEntry(<<c_, b_json>>), DirEntry(<<a_>>)}

Digits == <<"1", "2", "3", "4", "5", "6", "7", "8">>
WideDir(i) == <<"d", Digits[i]>>
WideTree(k) == {FileEntry(<<WideDir(i), b_json>>) : i \in 1..k}

\* --ignore-packages values: the default, nothing, blanks around an entry
IgnoreArgs ==
    {langchain, <<>>, <<" ", ",", " ">> \o xai \o <<" ", ",">>}

FilesOf(ai, si) ==
    {UpFile(p) : p \in ai} \cup {SiFile(e.path) : e \in {x \in si : x.kind = "file"}}

\* upstream contents are fixed, local contents agree with them or do not
ContentsOf(ai, si) ==
    {[f \in FilesOf(ai, si) |-> IF f.root = "ai" THEN "x" ELSE lc[f]] :
        lc \in [{f \in FilesOf(ai, si) : f.root = "si"} -> Contents]}

NoFixture == UpstreamFixture(<<>>, <<>>)

MainIdle ==
    /\ pc = "start"
    /\ ignore = {} /\ upstream = <<>> /\ file_index = <<>> /\ dir_names = {}
    /\ idx = 0
    /\ covered_by_file = <<>> /\ covered_by_file_multi = <<>>
    /\ covered_by_case_dir = <<>> /\ missing = <<>> /\ ambiguous = <<>>
    /\ drift = <<>>
    /\ out = <<>> /\ exit_code = <<>>

IdIdle == fx = NoFixture /\ cid = <<>> /\ norm1 = <<>> /\ norm2 = <<>> /\ ppc = "idle"

\* the upstream trees: nothing at all, or a file outside every __fixtures__
\* directory beside any of the fixture files
SmallTrees ==
    /\ aiTree \in {{}} \cup {S \cup {upE} : S \in SUBSET (UpUniverse \ {upE})}
    /\ siTree \in SUBSET SiUniverse
    /\ content \in ContentsOf(aiTree, siTree)

\* small trees, every file readable, every --limit
InitSmall ==
    /\ SmallTrees
    /\ unreadable = {}
    /\ rev \in BOOLEAN
    /\ args \in [ignore_packages : IgnoreArgs, limit : (0 - 1)..MaxLimit]

\* small trees, one file of them unreadable
InitUnreadable ==
    /\ SmallTrees
    /\ unreadable \in {{f} : f \in FilesOf(aiTree, siTree)}
    /\ rev = FALSE
    /\ args \in [ignore_packages : IgnoreArgs, limit : {DefaultLimit}]

\* one upstream fixture and up to MaxCands local files of its name
InitWide ==
    /\ aiTree = {upW}
    /\ \E k \in 2..MaxCands : siTree = WideTree(k)
    /\ content \in ContentsOf(aiTree, siTree)
    /\ unreadable = {}
    /\ rev \in BOOLEAN
    /\ args = [ignore_packages |-> langchain, limit |-> DefaultLimit]

Init == (InitSmall \/ InitUnreadable \/ InitWide) /\ MainIdle /\ IdIdle

(***************************************************************************)
(* main                                                                    *)
(***************************************************************************)
Buckets ==
    [covered_by_file |-> covered_by_file,
     covered_by_file_multi |-> covered_by_file_multi,
     covered_by_case_dir |-> covered_by_case_dir,
     missing |-> missing, ambiguous |-> ambiguous, drift |-> drift]

SetBuckets(b) ==
    /\ covered_by_file' = b.covered_by_file
    /\ covered_by_file_multi' = b.covered_by_file_multi
    /\ covered_by_case_dir' = b.covered_by_case_dir
    /\ missing' = b.missing
    /\ ambiguous' = b.ambiguous
    /\ drift' = b.drift

\* line 121: the enumeration without the ignored packages
FilterIgnored(enumerated, ign) ==
    LET Kept(f) == f.package \notin ign
    IN  SelectSeq(enumerated, Kept)

\* lines 120-129
Setup ==
    /\ pc = "start"
    /\ ignore' = ParseIgnore(args.ignore_packages)
    /\ upstream' = FilterIgnored(iter_upstream_fixtures(aiTree, rev), ignore')
    /\ LET built == build_siumai_fixture_index(siTree, rev)
       IN  file_index' = built.file_index /\ dir_names' = built.dir_names
    /\ SetBuckets(EmptyBuckets)
    /\ idx' = 1
    /\ pc' = "loop"
    /\ UNCHANGED <<fsVars, idVars, out, exit_code>>

\* lines 131-151, one fixture
Classify ==
    /\ pc = "loop" /\ idx <= Len(upstream)
    /\ ~Raises(upstream[idx], file_index, unreadable)
    /\ SetBuckets(LoopBody(Buckets, upstream[idx], file_index, dir_names, content))
    /\ idx' = idx + 1
    /\ UNCHANGED <<fsVars, idVars, pc, ignore, upstream, file_index, dir_names,
                   out, exit_code>>

\* sha256 raises: the exception leaves main and the interpreter exits with 1
HashError ==
    /\ pc = "loop" /\ idx <= Len(upstream)
    /\ Raises(upstream[idx], file_index, unreadable)
    /\ pc' = "aborted"
    /\ exit_code' = <<1>>
    /\ UNCHANGED <<fsVars, idVars, ignore, upstream, file_index, dir_names, idx,
                   covered_by_file, covered_by_file_multi, covered_by_case_dir,
                   missing, ambiguous, drift, out>>

\* lines 153-189, and SystemExit(0)
Report ==
    /\ pc = "loop" /\ idx > Len(upstream)
    /\ out' = ReportLines(Buckets, upstream, ignore, args.limit)
    /\ pc' = "done"
    /\ exit_code' = <<0>>
    /\ UNCHANGED <<fsVars, idVars, ignore, upstream, file_index, dir_names, idx,
                   covered_by_file, covered_by_file_multi, covered_by_case_dir,
                   missing, ambiguous, drift>>

Next == Setup \/ Classify \/ HashError \/ Report

Spec == Init /\ [][Next]_vars

(***************************************************************************)
(* The derived ids of one fixture, applied to generated file names         *)
(***************************************************************************)
Segs ==
    {<<>>, a_, <<"1">>, chunks, txt, openaiPrefix \o a_,
     openaiPrefix \o openaiPrefix \o a_, xaiPrefix \o xaiPrefix \o a_}

\* file names of one to MaxSegs segments
Names == {Join(segs, dot) : segs \in UNION {[1..k -> Segs] : k \in 1..MaxSegs}} \ {<<>>}

Packages == {openai, xai, anthropic}

FsIdle ==
    /\ aiTree = {} /\ siTree = {} /\ content = <<>> /\ unreadable = {}
    /\ rev = FALSE
    /\ args = [ignore_packages |-> langchain, limit |-> DefaultLimit]

InitId ==
    /\ FsIdle /\ MainIdle
    /\ fx \in {UpstreamFixture(p, <<p, fixturesName, n>>) : p \in Packages, n \in Names}
    /\ cid = <<>> /\ norm1 = <<>> /\ norm2 = <<>>
    /\ ppc = "fixture"

\* f.case_id, line 147
DeriveCaseId ==
    /\ ppc = "fixture"
    /\ cid' = case_id(Name(fx.path))
    /\ ppc' = "case_id"
    /\ UNCHANGED <<fsVars, mainVars, fx, norm1, norm2>>

\* normalize_case_id(f.package, f.case_id), line 147
Normalize ==
    /\ ppc = "case_id"
    /\ norm1' = normalize_case_id(fx.package, cid)
    /\ ppc' = "normalized"
    /\ UNCHANGED <<fsVars, mainVars, fx, cid, norm2>>

\* normalize_case_id applied to its own result
NormalizeAgain ==
    /\ ppc = "normalized"
    /\ norm2' = normalize_case_id(fx.package, norm1)
    /\ ppc' = "renormalized"
    /\ UNCHANGED <<fsVars, mainVars, fx, cid, norm1>>

NextId == DeriveCaseId \/ Normalize \/ NormalizeAgain

SpecId == InitId /\ [][NextId]_vars

(***************************************************************************)
(* What the claims speak of, read off the trees and the command line       *)
(***************************************************************************)
AfterLoop == pc = "done" \/ (pc = "loop" /\ idx > Len(upstream))

\* the upstream files that lie below some directory named __fixtures__
FixtureFiles == {p \in aiTree : \E k \in 1..(Len(p) - 1) : p[k] = fixturesName}

\* the package is named, blanks aside, by an entry of --ignore-packages
IgnoredPackage(package) ==
    LET entries == Split(args.ignore_packages, ",")
    IN  package # <<>> /\ \E i \in 1..Len(entries) : Strip(entries[i]) = package

\* the fixtures the audit is about
Audited == {UpstreamFixture(p[1], p) : p \in {q \in FixtureFiles : ~IgnoredPackage(q[1])}}

\* the local files that share a fixture's file name
SameNamed(f) ==
    {e.path : e \in {x \in siTree : x.kind = "file" /\ Name(x.path) = Name(f.path)}}

\* the same-named local files whose bytes are the fixture's
SameBytes(f) == {c \in SameNamed(f) : content[SiFile(c)] = content[UpFile(f.path)]}

LocalDirNames ==
    {Name(p) : p \in {q \in AllPrefixes({e.path : e \in siTree}) :
                         \/ DirEntry(q) \in siTree
                         \/ \E e \in siTree : Len(q) < Len(e.path) /\ IsPrefix(q, e.path)}}

Count(seq, x) == Cardinality({i \in 1..Len(seq) : seq[i] = x})

Firsts(seq) == [i \in 1..Len(seq) |-> seq[i][1]]

NoRepeat(seq) == \A i, j \in 1..Len(seq) : seq[i] = seq[j] => i = j

\* the fixtures of the five buckets, in bucket order
InFile    == covered_by_file
InMulti   == Firsts(covered_by_file_multi)
InCaseDir == covered_by_case_dir
InAmbig   == Firsts(ambiguous)
InMissing == missing

CountOf(sec) ==
    LET i == CHOOSE j \in 1..Len(out) : out[j].tag = "count" /\ out[j].sec = sec
    IN  out[i].n

\* C1: after the loop the five buckets hold exactly the enumerated fixtures
\* of packages that are not ignored, each list entry of the enumeration in
\* one bucket and no fixture in two different buckets; no fixture of an
\* ignored package is in a bucket; the five printed counts sum to the total.
C1_BucketsPartition ==
    AfterLoop =>
        LET all == InFile \o InMulti \o InCaseDir \o InAmbig \o InMissing
        IN  /\ Range(all) = Audited
            /\ \A f \in Range(all) : ~IgnoredPackage(f.package)
            /\ \A f \in Range(all) : Count(all, f) = Count(upstream, f)
            /\ Len(all) = Len(upstream)
            /\ \A f \in Audited :
                   Cardinality({k \in 1..5 :
                       f \in Range(<<InFile, InMulti, InCaseDir, InAmbig, InMissing>>[k])}) = 1
            /\ pc = "done" =>
                   CountOf("covered_by_file") + CountOf("covered_by_file_multi")
                     + CountOf("covered_by_case_dir") + CountOf("ambiguous")
                     + CountOf("missing") = CountOf("total")
            /\ pc = "done" => CountOf("total") = Len(upstream)

C1_Witness ==
    /\ pc = "done"
    /\ covered_by_file # <<>> /\ covered_by_case_dir # <<>> /\ missing # <<>>
    /\ \E p \in FixtureFiles : IgnoredPackage(p[1])

\* C2: a fixture with exactly one same-named local file is in covered_by_file
\* whatever the contents, and the drift list holds the pair (fixture, local
\* path) exactly once if the contents differ and not at all if they agree;
\* every drift entry is of such a fixture.
C2_DriftExactlyOnce ==
    AfterLoop =>
        /\ \A f \in Audited :
               Cardinality(SameNamed(f)) = 1 =>
                   LET si == CHOOSE c \in SameNamed(f) : TRUE
                   IN  /\ f \in Range(covered_by_file)
                       /\ Count(drift, <<f, si>>) =
                              IF content[SiFile(si)] # content[UpFile(f.path)]
                              THEN 1 ELSE 0
        /\ \A i \in 1..Len(drift) :
               /\ drift[i][1] \in Range(covered_by_file)
               /\ SameNamed(drift[i][1]) = {drift[i][2]}

\* C3: a fixture with two or more same-named local files is in
\* covered_by_file_multi exactly if some candidate has its bytes, its
\* matching list then being exactly the candidates with its bytes; otherwise
\* it is in ambiguous with every candidate kept. Matching and OTHER are
\* disjoint and together are the candidates.
C3_MatchAny ==
    AfterLoop =>
        /\ \A f \in Audited :
               Cardinality(SameNamed(f)) >= 2 =>
                   /\ (f \in Range(InMulti)) <=> (SameBytes(f) # {})
                   /\ (f \in Range(InAmbig)) <=> (SameBytes(f) = {})
        /\ \A i \in 1..Len(covered_by_file_multi) :
               LET e == covered_by_file_multi[i]
                   other == Other(e[3], e[2])
               IN  /\ Cardinality(SameNamed(e[1])) >= 2
                   /\ Range(e[2]) = SameBytes(e[1]) /\ NoRepeat(e[2])
                   /\ Range(e[3]) = SameNamed(e[1]) /\ NoRepeat(e[3])
                   /\ Range(e[2]) \cap Range(other) = {}
                   /\ Range(e[2]) \cup Range(other) = Range(e[3])
                   /\ Len(e[2]) + Len(other) = Len(e[3])
        /\ \A i \in 1..Len(ambiguous) :
               LET e == ambiguous[i]
               IN  /\ Cardinality(SameNamed(e[1])) >= 2
                   /\ Range(e[2]) = SameNamed(e[1]) /\ NoRepeat(e[2])

C3_Witness ==
    /\ pc = "done"
    /\ \E i \in 1..Len(covered_by_file_multi) :
           LET e == covered_by_file_multi[i]
           IN  Len(e[2]) >= 1 /\ Len(e[2]) < Len(e[3])

\* the case directory of a fixture exists: its normalized case id is a local
\* directory name, or begins one that goes on with "-"
DirMatch(f) ==
    LET n == normalize_case_id(f.package, case_id(Name(f.path)))
    IN  \E d \in LocalDirNames : d = n \/ StartsWith(d, n \o dash)

\* C4: only a fixture without a same-named local file is classified by case
\* directory: it is in covered_by_case_dir exactly if its case directory
\* exists and in missing otherwise; a fixture with a same-named local file
\* is in neither, whether or not its case directory exists.
C4_FileNameFirst ==
    AfterLoop =>
        \A f \in Audited :
            /\ SameNamed(f) # {} =>
                   f \notin Range(InCaseDir) /\ f \notin Range(InMissing)
            /\ SameNamed(f) = {} =>
                   /\ (f \in Range(InCaseDir)) <=> DirMatch(f)
                   /\ (f \in Range(InMissing)) <=> ~DirMatch(f)

C4_Witness ==
    /\ pc = "done"
    /\ \E f \in Range(covered_by_file) : DirMatch(f)
    /\ \E f \in Range(covered_by_case_dir) :
           normalize_case_id(f.package, case_id(Name(f.path))) \notin LocalDirNames
    /\ missing # <<>>

\* C5 as stated: the chunks.txt pair is stripped whenever it is the last two
\* segments, also when it is the whole name; otherwise the last segment is
\* stripped when there are two or more, and a name without a dot is kept.
C5_AsStated ==
    ppc # "fixture" /\ ppc # "idle" =>
        LET name  == Name(fx.path)
            parts == Split(name, ".")
            n     == Len(parts)
        IN  cid = IF n >= 2 /\ parts[n - 1] = chunks /\ parts[n] = txt
                  THEN Join(SubSeq(parts, 1, n - 2), dot)
                  ELSE IF n >= 2 THEN Join(SubSeq(parts, 1, n - 1), dot)
                  ELSE name

HasDot(s) == \E i \in 1..Len(s) : s[i] = "."

dotChunksTxt == dot \o chunks \o dot \o txt

\* C5, amended: a name that ends in ".chunks.txt" (three or more segments)
\* is its case id followed by ".chunks.txt"; any other name with a dot,
\* "chunks.txt" included, is its case id followed by "." and a last segment
\* without a dot; a name without a dot is its own case id.
C5_CaseId ==
    ppc # "fixture" /\ ppc # "idle" =>
        LET name == Name(fx.path)
        IN  IF EndsWith(name, dotChunksTxt) THEN cid \o dotChunksTxt = name
            ELSE IF HasDot(name)
            THEN /\ StartsWith(name, cid \o dot)
                 /\ ~HasDot(SubSeq(name, Len(cid) + 2, Len(name)))
            ELSE cid = name

C5_Witness ==
    /\ ppc = "case_id"
    /\ Name(fx.path) = chunks \o dot \o txt
    /\ cid = chunks

\* the prefix normalize_case_id strips for a package, if any
OwnPrefix(package) ==
    IF package = openai THEN openaiPrefix
    ELSE IF package = xai THEN xaiPrefix
    ELSE <<>>

Renormalized == ppc = "renormalized"

\* C6 as stated: normalizing twice gives what normalizing once gives, and a
\* prefix is stripped only for its own package.
C6_Idempotent ==
    Renormalized =>
        /\ norm2 = norm1
        /\ norm1 # cid => OwnPrefix(fx.package) # <<>> /\ OwnPrefix(fx.package) \o norm1 = cid

\* C6, amended: normalize_case_id strips one leading occurrence of the
\* package's own prefix and nothing else: the result with that prefix put
\* back is the case id when the case id starts with it, and is the case id
\* itself otherwise or for any other package. Normalizing the result again
\* changes it exactly when the result still starts with the prefix.
C6_StripsOnce ==
    Renormalized =>
        LET pre == OwnPrefix(fx.package)
        IN  /\ IF pre # <<>> /\ StartsWith(cid, pre)
               THEN pre \o norm1 = cid
               ELSE norm1 = cid
            /\ (norm2 = norm1) <=> ~(pre # <<>> /\ StartsWith(norm1, pre))
            /\ norm2 # norm1 => pre \o norm2 = norm1

C6_Witness ==
    /\ Renormalized
    /\ fx.package = openai
    /\ StartsWith(cid, openaiPrefix \o openaiPrefix)
    /\ norm2 # norm1

\* the files the classification of a fixture has to hash
Needs(f) ==
    IF SameNamed(f) = {} THEN {}
    ELSE {UpFile(f.path)} \cup {SiFile(c) : c \in SameNamed(f)}

BucketOf(sec) ==
    CASE sec = "drift" -> drift
      [] sec = "missing" -> missing
      [] sec = "ambiguous" -> ambiguous
      [] sec = "multi" -> covered_by_file_multi

Sections == {"drift", "missing", "ambiguous", "multi"}

HeaderCount(sec) ==
    Cardinality({i \in 1..Len(out) : out[i].tag = "header" /\ out[i].sec = sec})

\* C7: a run in which a file that has to be hashed cannot be read aborts at
\* the fixture that needs it, exits non-zero and prints nothing; a run in
\* which every such file can be read prints the counts and a section for
\* every non-empty list and exits with 0.
C7_NoPartialSuccess ==
    /\ pc # "done" => out = <<>>
    /\ pc \in {"start", "loop"} => exit_code = <<>>
    /\ pc = "loop" =>
           \A j \in 1..(idx - 1) : j <= Len(upstream) =>
               Needs(upstream[j]) \cap unreadable = {}
    /\ pc = "aborted" =>
           /\ exit_code # <<>> /\ exit_code # <<0>>
           /\ idx <= Len(upstream)
           /\ Needs(upstream[idx]) \cap unreadable # {}
           /\ \A j \in 1..(idx - 1) : Needs(upstream[j]) \cap unreadable = {}
    /\ pc = "done" =>
           /\ exit_code = <<0>>
           /\ \A f \in Audited : Needs(f) \cap unreadable = {}
           /\ Len(out) >= 7 /\ \A i \in 1..7 : out[i].tag = "count"
           /\ \A sec \in Sections :
                  HeaderCount(sec) = IF BucketOf(sec) # <<>> THEN 1 ELSE 0

C7_Witness ==
    /\ pc = "aborted"
    /\ idx > 1
    /\ \E f \in unreadable : f.root = "si"
    /\ out = <<>>

\* the paths of the UP lines of a section, in print order
ShownUp(sec) ==
    LET IsUp(l) == l.sec = sec /\ l.tag = "UP"
        ups == SelectSeq(out, IsUp)
    IN  [i \in 1..Len(ups) |-> ups[i].path]

\* the upstream paths of a list, in list order
BucketPaths(sec) ==
    LET b == BucketOf(sec)
    IN  [i \in 1..Len(b) |-> IF sec = "missing" THEN b[i].path ELSE b[i][1].path]

\* C8: for every --limit, each section prints at most limit upstream
\* entries (none when the limit is negative), a prefix of its list, and the
\* printed counts are the lengths of the lists. Stated of the runs whose
\* enumeration holds no file twice.
C8_AtMostLimit ==
    pc = "done" /\ NoRepeat(upstream) =>
        \A sec \in Sections :
            /\ Len(ShownUp(sec)) <= (IF args.limit >= 0 THEN args.limit ELSE 0)
            /\ Len(ShownUp(sec)) <= Len(BucketPaths(sec))
            /\ ShownUp(sec) = SubSeq(BucketPaths(sec), 1, Len(ShownUp(sec)))
            /\ CountOf(IF sec = "multi" THEN "covered_by_file_multi" ELSE sec)
                   = Len(BucketOf(sec))

\* the lines of a section below its header
Body(sec) ==
    LET In(l) == l.sec = sec /\ l.tag \notin {"count", "header"}
    IN  SelectSeq(out, In)

\* the number of lines with the tag that follow the UP line at i in its entry
Shown(lines, i, tag) ==
    Cardinality({j \in (i + 1)..Len(lines) :
                    /\ lines[j].tag = tag
                    /\ \A m \in (i + 1)..j : lines[m].tag # "UP"})

Min(x, y) == IF x <= y THEN x ELSE y

\* C9 as stated: a drift entry shows one local path, an ambiguous entry and
\* a multi-match entry at most SummaryCap local paths in total.
C9_AtMostFiveInTotal ==
    pc = "done" =>
        /\ \A i \in 1..Len(Body("drift")) :
               Body("drift")[i].tag = "UP" => Shown(Body("drift"), i, "SI") = 1
        /\ \A i \in 1..Len(Body("ambiguous")) :
               Body("ambiguous")[i].tag = "UP" =>
                   Shown(Body("ambiguous"), i, "SI") <= SummaryCap
        /\ \A i \in 1..Len(Body("multi")) :
               Body("multi")[i].tag = "UP" =>
                   Shown(Body("multi"), i, "MATCH") + Shown(Body("multi"), i, "OTHER")
                       <= SummaryCap

\* the k-th printed entry of a section is the k-th entry of its list
EntryIndex(lines, i) == Cardinality({j \in 1..i : lines[j].tag = "UP"})

\* C9, amended: a drift entry shows exactly one local path; an ambiguous
\* entry shows its first SummaryCap candidates at most; a multi-match entry
\* shows at most SummaryCap matching and at most SummaryCap other paths, each
\* list cut on its own, so up to twice SummaryCap in total.
C9_FivePerList ==
    pc = "done" =>
        /\ \A i \in 1..Len(Body("drift")) :
               Body("drift")[i].tag = "UP" => Shown(Body("drift"), i, "SI") = 1
        /\ \A i \in 1..Len(Body("ambiguous")) :
               Body("ambiguous")[i].tag = "UP" =>
                   LET e == ambiguous[EntryIndex(Body("ambiguous"), i)]
                   IN  Shown(Body("ambiguous"), i, "SI") =
                           Min(SummaryCap, Cardinality(SameNamed(e[1])))
        /\ \A i \in 1..Len(Body("multi")) :
               Body("multi")[i].tag = "UP" =>
                   LET e == covered_by_file_multi[EntryIndex(Body("multi"), i)]
                       same == Cardinality(SameBytes(e[1]))
                       all  == Cardinality(SameNamed(e[1]))
                   IN  /\ Shown(Body("multi"), i, "MATCH") = Min(SummaryCap, same)
                       /\ Shown(Body("multi"), i, "OTHER") = Min(SummaryCap, all - same)

C9_Witness ==
    /\ pc = "done"
    /\ \E i \in 1..Len(Body("multi")) :
           /\ Body("multi")[i].tag = "UP"
           /\ Shown(Body("multi"), i, "MATCH") + Shown(Body("multi"), i, "OTHER")
                  > SummaryCap

\* C10: the enumeration holds no path twice and is in ascending order of the
\* path string.
C10_EachFileOnce ==
    pc # "start" =>
        /\ \A i, j \in 1..Len(upstream) :
               upstream[i].path = upstream[j].path => i = j
        /\ \A i \in 1..(Len(upstream) - 1) :
               ~StrLess(PathStr(upstream[i + 1].path), PathStr(upstream[i].path))

====
